---- MODULE Spec2Model ----
(***************************************************************************)
(* Model of machine_gun.py: the MachineGun load generator.                 *)
(*                                                                         *)
(* One run of main() is modelled: a strategy coroutine (ddos, burst,       *)
(* sustained, random or database) driven by the asyncio event loop, the    *)
(* make_request coroutines it creates, the shared stats dictionary and the *)
(* report print_stats produces.  asyncio is cooperative: code between two  *)
(* awaits runs atomically, so every action below is one such segment.      *)
(*                                                                         *)
(* time.time() is the variable clock, counted in units of 100 ms (the      *)
(* sleep of ddos_attack is one unit).  duration and interval are given in  *)
(* the same unit.  Synchronous code takes no time; the clock advances only *)
(* while the strategy is suspended in a sleep or a gather.                 *)
(***************************************************************************)
EXTENDS Integers, Sequences, FiniteSets, TLC

\* ---------------------------------------------------------------- bounds
MaxDuration == 3      \* largest duration drawn, in clock units
MaxBurst == 2         \* largest burst_size drawn
MaxInterval == 2      \* largest burst interval drawn, in clock units
MaxRandRps == 1       \* largest max_rps drawn for random_attack
MaxLat == 2           \* a request resolves at most MaxLat units after it starts
MaxIssued == 3        \* most requests one run creates
MaxSample == 21       \* most latencies recorded when the collector is driven
                      \* directly
DbGroup == 25         \* requests of a database tick that one modelled request
                      \* stands for

\* ------------------------------------------------------ program constants
ONE_SECOND == 10          \* 1.0 second, the numerator of 1.0 / rps
DDOS_SLEEP == 1           \* asyncio.sleep(0.1)
DDOS_DIVISOR == 10        \* rps // 10
DB_SLEEP == 5             \* asyncio.sleep(0.5)
DB_HEAVY == 50            \* range(50)
DB_QUEUE == 20            \* range(20)
RAND_SLEEP_MIN == 1       \* random.uniform(0.1, 2.0)
RAND_SLEEP_MAX == 20
HTTP_ERROR_FLOOR == 400   \* response.status < 400
RECENT_ERRORS == 5        \* errors[-5:]
PERCENTILE == 95          \* np.percentile(response_times, 95)

Attacks == {"ddos", "burst", "sustained", "random", "database"}
Durations == (-1)..MaxDuration
Statuses == {200, 400}

\* the endpoint random.choice picks: make_request treats every endpoint
\* alike, so the first of each strategy's list stands for the list.  Only
\* database_attack names its endpoints, two of them (see DbCoroutines).
Endpoints(a) ==
    CASE a = "ddos" -> {"/cpu-intensive"}
      [] a = "burst" -> {"/cpu-intensive?n=100000"}
      [] a = "sustained" -> {"/cpu-intensive?n=500000"}
      [] a = "random" -> {"/cpu-intensive"}
      [] OTHER -> {"/database-heavy?queries=100", "/queue-task"}

\* rps values drawn per strategy (argparse accepts any int; negative values
\* behave like 0 in range() and are not drawn).  sustained draws only rates
\* whose interval 1.0 / rps is a whole number of clock units.
RpsValues(a) ==
    CASE a = "ddos" -> {0, 5, 10}
      [] a = "sustained" -> {0, 5, 10}
      [] a = "random" -> 0..MaxRandRps
      [] OTHER -> {0}

VARIABLES
    attack,      \* args.attack
    duration,    \* args.duration
    rps,         \* args.rps (max_rps of random_attack)
    burst_size,  \* burst_size of burst_attack
    interval,    \* interval of burst_attack
    clock,       \* time.time()
    end_time,    \* end_time of the running strategy
    pc,          \* position of the strategy coroutine
    wakeAt,      \* clock value at which the pending asyncio.sleep returns
    tick,        \* number of loop iterations begun
    reqs,        \* the make_request coroutines created, in creation order
    batch,       \* indices of reqs awaited by the pending asyncio.gather
    stats,       \* self.stats
    report,      \* what print_stats printed
    error        \* exception that left the strategy, "none" if none

vars == <<attack, duration, rps, burst_size, interval, clock, end_time, pc,
          wakeAt, tick, reqs, batch, stats, report, error>>

params == <<attack, duration, rps, burst_size, interval>>

\* ------------------------------------------------------------- helpers
Max(a, b) == IF a >= b THEN a ELSE b
Min(a, b) == IF a <= b THEN a ELSE b

RECURSIVE SumSeq(_)
SumSeq(s) == IF s = <<>> THEN 0 ELSE Head(s) + SumSeq(Tail(s))

\* a / b rounded up, for a >= 0 and b > 0
CeilDiv(a, b) == (a + b - 1) \div b

\* range(n): n iterations, none for n <= 0
RangeLen(n) == Max(0, n)

\* Python's //, floor division by a positive divisor
FloorDiv(a, b) == IF a >= 0 THEN a \div b ELSE -(((-a) + b - 1) \div b)

\* self.stats as built by __init__
InitStats ==
    [total_requests |-> 0, successful_requests |-> 0, failed_requests |-> 0,
     response_times |-> <<>>, errors |-> <<>>]

\* a coroutine object make_request(...) created in loop iteration t,
\* not yet scheduled
NewCoroutine(t, endpoint) ==
    [tick |-> t, endpoint |-> endpoint, stage |-> "created", start |-> 0,
     rt |-> 0, status |-> 0, ret |-> "pending"]

\* the coroutine's first segment: start_time = time.time(), then the await of
\* session.request
Started(r, now) == [r EXCEPT !.stage = "sent", !.start = now]

\* the coroutine returned a dict of the given kind ("status": status,
\* response_time and content; "error": error and response_time, no status);
\* its locals endpoint, start_time and response_time are gone, and no caller
\* reads the response_time of the dict
Returned(r, kind, status) ==
    [r EXCEPT !.stage = "done", !.ret = kind, !.status = status,
              !.rt = 0, !.start = 0, !.endpoint = ""]

\* indices of the requests whose coroutine has not finished
Unresolved == {i \in 1..Len(reqs) : reqs[i].stage \notin {"done", "cancelled"}}
InFlight == {i \in 1..Len(reqs) : reqs[i].stage \in {"sent", "responded"}}

\* ---------------------------------------------------------- make_request
\* mutant: total_requests += 1 moved into the success branch, so an HTTP
\* error is counted as failed but not in the total
RecordResponseLostTotal(st, status, response_time, endpoint) ==
    [st EXCEPT
        !.total_requests = IF status < HTTP_ERROR_FLOOR THEN @ + 1 ELSE @,
        !.successful_requests = IF status < HTTP_ERROR_FLOOR THEN @ + 1 ELSE @,
        !.failed_requests = IF status < HTTP_ERROR_FLOOR THEN @ ELSE @ + 1,
        !.errors = IF status < HTTP_ERROR_FLOOR THEN @
                   ELSE Append(@, [status |-> status, endpoint |-> endpoint]),
        !.response_times = Append(@, response_time)]

\* mutant: the error record of an HTTP error does not keep the endpoint
RecordResponseEndpointLost(st, status, response_time, endpoint) ==
    [st EXCEPT
        !.total_requests = @ + 1,
        !.successful_requests = IF status < HTTP_ERROR_FLOOR THEN @ + 1 ELSE @,
        !.failed_requests = IF status < HTTP_ERROR_FLOOR THEN @ ELSE @ + 1,
        !.errors = IF status < HTTP_ERROR_FLOOR THEN @
                   ELSE Append(@, [status |-> status, endpoint |-> ""]),
        !.response_times = Append(@, response_time)]

\* lines 50-61: the response was read; count it and keep its latency
RecordResponse(st, status, response_time, endpoint) ==
    [st EXCEPT
        !.total_requests = @ + 1,
        !.successful_requests = IF status < HTTP_ERROR_FLOOR THEN @ + 1 ELSE @,
        !.failed_requests = IF status < HTTP_ERROR_FLOOR THEN @ ELSE @ + 1,
        !.errors = IF status < HTTP_ERROR_FLOOR THEN @
                   ELSE Append(@, [status |-> status, endpoint |-> endpoint]),
        !.response_times = Append(@, response_time)]

\* mutant: the except clause forgets failed_requests += 1
RecordExceptionNoFailed(st, endpoint) ==
    [st EXCEPT
        !.total_requests = @ + 1,
        !.errors = Append(@, [error |-> "Exception", endpoint |-> endpoint])]

\* mutant: the except clause also appends a latency
RecordExceptionWithLatency(st, endpoint) ==
    [st EXCEPT
        !.total_requests = @ + 1,
        !.failed_requests = @ + 1,
        !.errors = Append(@, [error |-> "Exception", endpoint |-> endpoint]),
        !.response_times = Append(@, 0)]

\* lines 68-76: an exception was caught; count the failure
RecordException(st, endpoint) ==
    [st EXCEPT
        !.total_requests = @ + 1,
        !.failed_requests = @ + 1,
        !.errors = Append(@, [error |-> "Exception", endpoint |-> endpoint])]

\* the request may run: the strategy coroutine is suspended in an await
Suspended == pc \in {"sleep", "gather", "drain", "done", "raised"}

\* Coroutines in exactly the same state are interchangeable: of those, the
\* event loop's next step is taken by the one created first.
First(i) == \A j \in 1..(i - 1) : reqs[j] /= reqs[i]

\* line 46-47: session.request returned a response with status s
Respond(i, s) ==
    /\ Suspended
    /\ i \in 1..Len(reqs)
    /\ reqs[i].stage = "sent"
    /\ First(i)
    /\ reqs' = [reqs EXCEPT ![i].stage = "responded",
                            ![i].status = s,
                            ![i].rt = clock - reqs[i].start]
    /\ UNCHANGED <<params, clock, end_time, pc, wakeAt, tick, batch, stats,
                   report, error>>

\* lines 48-67: response.text() returned; stats updated, dict returned
ReadBody(i) ==
    /\ Suspended
    /\ i \in 1..Len(reqs)
    /\ reqs[i].stage = "responded"
    /\ First(i)
    /\ stats' = RecordResponse(stats, reqs[i].status, reqs[i].rt,
                               reqs[i].endpoint)
    /\ reqs' = [reqs EXCEPT ![i] = Returned(@, "status", @.status)]
    /\ UNCHANGED <<params, clock, end_time, pc, wakeAt, tick, batch, report,
                   error>>

\* mutant: no except clause; the exception leaves make_request unrecorded
PropagateException(i) ==
    /\ Suspended
    /\ i \in 1..Len(reqs)
    /\ reqs[i].stage \in {"sent", "responded"}
    /\ reqs' = [reqs EXCEPT ![i] = Returned(@, "Exception", 0)]
    /\ UNCHANGED <<params, clock, end_time, pc, wakeAt, tick, batch, stats,
                   report, error>>

\* lines 68-77: session.request (stage sent) or response.text() (stage
\* responded) raised an Exception; the except clause records it and returns
\* a dict with "error" and no "status"
CatchException(i) ==
    /\ Suspended
    /\ i \in 1..Len(reqs)
    /\ reqs[i].stage \in {"sent", "responded"}
    /\ First(i)
    /\ stats' = RecordException(stats, reqs[i].endpoint)
    /\ reqs' = [reqs EXCEPT ![i] = Returned(@, "error", 0)]
    /\ UNCHANGED <<params, clock, end_time, pc, wakeAt, tick, batch, report,
                   error>>

\* ----------------------------------------------------------- print_stats
Sorted(s) == SortSeq(s, LAMBDA a, b : a < b)

\* mutant: the interpolation runs on the sample in arrival order
PercentileUnsortedX100(s, q) ==
    LET n == Len(s)
        pos == q * (n - 1)
        lo == pos \div 100
        hi == Min(lo + 1, n - 1)
    IN  100 * s[lo + 1] + (pos % 100) * (s[hi + 1] - s[lo + 1])

\* np.percentile(s, q) by linear interpolation on the sorted sample, times 100
PercentileX100(s, q) ==
    LET a == Sorted(s)
        n == Len(s)
        pos == q * (n - 1)
        lo == pos \div 100
        hi == Min(lo + 1, n - 1)
    IN  100 * a[lo + 1] + (pos % 100) * (a[hi + 1] - a[lo + 1])

\* errors[-5:]
RecentErrors(errs) ==
    SubSeq(errs, Max(1, Len(errs) - RECENT_ERRORS + 1), Len(errs))

\* mutant: print_stats without its emptiness check
PrintStatsUnguarded(st) ==
    IF st.total_requests = 0
    THEN [kind |-> "ZeroDivisionError"]
    ELSE [kind |-> "statistics",
          total |-> st.total_requests,
          successful |-> st.successful_requests,
          failed |-> st.failed_requests,
          success_rate_x10 |->
              (st.successful_requests * 1000) \div st.total_requests,
          mean_sum |-> SumSeq(st.response_times),
          mean_count |-> Len(st.response_times),
          recent_errors |-> RecentErrors(st.errors)]

\* print_stats: what is printed, or the exception raised.  success_rate is
\* kept in tenths of a percent, the mean as the pair sum / count.
PrintStats(st) ==
    IF st.response_times = <<>>
    THEN [kind |-> "no_requests_completed"]
    ELSE IF st.total_requests = 0
    THEN [kind |-> "ZeroDivisionError"]
    ELSE [kind |-> "statistics",
          total |-> st.total_requests,
          successful |-> st.successful_requests,
          failed |-> st.failed_requests,
          success_rate_x10 |->
              (st.successful_requests * 1000) \div st.total_requests,
          mean_sum |-> SumSeq(st.response_times),
          mean_count |-> Len(st.response_times),
          min |-> Sorted(st.response_times)[1],
          max |-> Sorted(st.response_times)[Len(st.response_times)],
          p95_x100 |-> PercentileX100(st.response_times, PERCENTILE),
          recent_errors |-> RecentErrors(st.errors)]

\* self.print_stats() as the last statement of a strategy, then its return
Finalize ==
    LET r == PrintStats(stats) IN
    /\ report' = r
    /\ pc' = IF r.kind = "ZeroDivisionError" THEN "raised" ELSE "done"
    /\ error' = IF r.kind = "ZeroDivisionError" THEN r.kind ELSE error

\* the n coroutine objects appended to a task list in loop iteration t, each
\* for an endpoint that random.choice picked: every possible list
Coroutines(n, t) ==
    {[k \in 1..RangeLen(n) |-> NewCoroutine(t, es[k])] :
        es \in [1..RangeLen(n) -> Endpoints(attack)]}

\* asyncio.gather(*tasks): every coroutine is wrapped in a task and runs its
\* first segment as soon as the caller suspends
Gathered(rs, ids, now) ==
    [k \in 1..Len(rs) |-> IF k \in ids THEN Started(rs[k], now) ELSE rs[k]]

\* mutant: the strategy goes on without awaiting the gather
GatherNotAwaited == TRUE

\* mutant: the wait returns with the first result (FIRST_COMPLETED)
GatherFirstCompleted ==
    batch = {} \/ \E i \in batch : reqs[i].stage = "done"

\* the pending gather has every result
GatherComplete == \A i \in batch : reqs[i].stage = "done"

\* ------------------------------------------------------------ ddos_attack
\* line 83-84
DdosCall ==
    /\ attack = "ddos" /\ pc = "start"
    /\ end_time' = clock + duration
    /\ pc' = "loop"
    /\ UNCHANGED <<params, clock, wakeAt, tick, reqs, batch, stats, report,
                   error>>

\* lines 86-100: one burst of rps // 10 coroutine objects, then sleep(0.1)
DdosTick ==
    LET n == RangeLen(FloorDiv(rps, DDOS_DIVISOR)) IN
    /\ attack = "ddos" /\ pc = "loop"
    /\ clock < end_time
    /\ Len(reqs) + n <= MaxIssued
    /\ \E burst_tasks \in Coroutines(n, tick + 1) :
           reqs' = reqs \o burst_tasks
    /\ tick' = tick + 1
    /\ pc' = "sleep"
    /\ wakeAt' = clock + DDOS_SLEEP
    /\ UNCHANGED <<params, clock, end_time, batch, stats, report, error>>

\* line 103: the loop is over; gather(*tasks) starts every accumulated
\* coroutine
DdosDrain ==
    /\ attack = "ddos" /\ pc = "loop"
    /\ ~(clock < end_time)
    /\ batch' = 1..Len(reqs)
    /\ reqs' = Gathered(reqs, 1..Len(reqs), clock)
    /\ pc' = "drain"
    /\ UNCHANGED <<params, clock, end_time, wakeAt, tick, stats, report,
                   error>>

\* lines 103-104: the gather returned; print_stats and return
DdosDone ==
    /\ attack = "ddos" /\ pc = "drain"
    /\ GatherComplete
    /\ Finalize
    /\ batch' = {}
    /\ UNCHANGED <<params, clock, end_time, wakeAt, tick, reqs, stats>>

\* ----------------------------------------------------------- burst_attack
\* line 110
BurstCall ==
    /\ attack = "burst" /\ pc = "start"
    /\ end_time' = clock + duration
    /\ pc' = "loop"
    /\ UNCHANGED <<params, clock, wakeAt, tick, reqs, batch, stats, report,
                   error>>

\* lines 112-130: burst_size coroutines, gathered at once
BurstTick ==
    LET n == RangeLen(burst_size)
        ids == (Len(reqs) + 1)..(Len(reqs) + n)
    IN
    /\ attack = "burst" /\ pc = "loop"
    /\ clock < end_time
    /\ Len(reqs) + n <= MaxIssued
    /\ \E tasks \in Coroutines(n, tick + 1) :
           reqs' = Gathered(reqs \o tasks, ids, clock)
    /\ batch' = ids
    /\ tick' = tick + 1
    /\ pc' = "gather"
    /\ UNCHANGED <<params, clock, end_time, wakeAt, stats, report, error>>

\* mutant: the sleep between bursts ignores interval
BurstSleepNoInterval ==
    /\ attack = "burst" /\ pc = "gather"
    /\ GatherComplete
    /\ batch' = {}
    /\ pc' = "sleep"
    /\ wakeAt' = clock
    /\ UNCHANGED <<params, clock, end_time, tick, reqs, stats, report, error>>

\* lines 130-131: the gather returned; sleep(interval)
BurstSleep ==
    /\ attack = "burst" /\ pc = "gather"
    /\ GatherComplete
    /\ batch' = {}
    /\ pc' = "sleep"
    /\ wakeAt' = clock + interval
    /\ UNCHANGED <<params, clock, end_time, tick, reqs, stats, report, error>>

\* lines 112, 133: the deadline passed; print_stats and return
BurstDone ==
    /\ attack = "burst" /\ pc = "loop"
    /\ ~(clock < end_time)
    /\ Finalize
    /\ UNCHANGED <<params, clock, end_time, wakeAt, tick, reqs, batch, stats>>

\* ------------------------------------------------------- sustained_attack
\* mutant: the interval ignores rps (one request per second)
SustainedIntervalOneSecond == ONE_SECOND

\* line 140: interval = 1.0 / rps, for rps /= 0
SustainedInterval == ONE_SECOND \div rps

\* lines 139-140: 1.0 / rps raises ZeroDivisionError when rps is 0
SustainedCall ==
    /\ attack = "sustained" /\ pc = "start"
    /\ end_time' = clock + duration
    /\ pc' = IF rps = 0 THEN "raised" ELSE "loop"
    /\ error' = IF rps = 0 THEN "ZeroDivisionError" ELSE error
    /\ UNCHANGED <<params, clock, wakeAt, tick, reqs, batch, stats, report>>

\* mutant: the loop awaits the request it dispatched before it sleeps
SustainedTickAwaited ==
    /\ attack = "sustained" /\ pc = "loop"
    /\ clock < end_time
    /\ Len(reqs) + 1 <= MaxIssued
    /\ \E endpoint \in Endpoints(attack) :
           reqs' = Append(reqs, Started(NewCoroutine(tick + 1, endpoint), clock))
    /\ batch' = {Len(reqs) + 1}
    /\ tick' = tick + 1
    /\ pc' = "gather"
    /\ UNCHANGED <<params, clock, end_time, wakeAt, stats, report, error>>

\* lines 142-157: create_task(make_request(...)) without keeping the task,
\* then sleep(max(0, interval - elapsed)); the task runs its first segment
\* when the strategy suspends in the sleep
SustainedTick ==
    LET elapsed == clock - clock IN
    /\ attack = "sustained" /\ pc = "loop"
    /\ clock < end_time
    /\ Len(reqs) + 1 <= MaxIssued
    /\ \E endpoint \in Endpoints(attack) :
           reqs' = Append(reqs, Started(NewCoroutine(tick + 1, endpoint), clock))
    /\ tick' = tick + 1
    /\ pc' = "sleep"
    /\ wakeAt' = clock + Max(0, SustainedInterval - elapsed)
    /\ UNCHANGED <<params, clock, end_time, batch, stats, report, error>>

\* lines 142, 159: the deadline passed; print_stats and return, whatever the
\* created tasks are doing
SustainedDone ==
    /\ attack = "sustained" /\ pc = "loop"
    /\ ~(clock < end_time)
    /\ Finalize
    /\ UNCHANGED <<params, clock, end_time, wakeAt, tick, reqs, batch, stats>>

\* ---------------------------------------------------------- random_attack
\* line 165
RandomCall ==
    /\ attack = "random" /\ pc = "start"
    /\ end_time' = clock + duration
    /\ pc' = "loop"
    /\ UNCHANGED <<params, clock, wakeAt, tick, reqs, batch, stats, report,
                   error>>

\* lines 167-190: current_rps = randint(0, max_rps) > 0 coroutines, gathered
RandomTick(current_rps) ==
    LET ids == (Len(reqs) + 1)..(Len(reqs) + current_rps) IN
    /\ attack = "random" /\ pc = "loop"
    /\ clock < end_time
    /\ current_rps \in 0..rps /\ current_rps > 0
    /\ Len(reqs) + current_rps <= MaxIssued
    /\ \E tasks \in Coroutines(current_rps, tick + 1) :
           reqs' = Gathered(reqs \o tasks, ids, clock)
    /\ batch' = ids
    /\ tick' = tick + 1
    /\ pc' = "gather"
    /\ UNCHANGED <<params, clock, end_time, wakeAt, stats, report, error>>

\* lines 167-171, 193: current_rps = 0, nothing is sent; sleep(uniform(0.1, 2.0))
RandomIdleTick(sleep_time) ==
    /\ attack = "random" /\ pc = "loop"
    /\ clock < end_time
    /\ sleep_time \in RAND_SLEEP_MIN..RAND_SLEEP_MAX
    /\ tick' = tick + 1
    /\ pc' = "sleep"
    /\ wakeAt' = clock + sleep_time
    /\ UNCHANGED <<params, clock, end_time, reqs, batch, stats, report, error>>

\* lines 190-193: the gather returned; sleep(uniform(0.1, 2.0))
RandomSleep(sleep_time) ==
    /\ attack = "random" /\ pc = "gather"
    /\ GatherComplete
    /\ sleep_time \in RAND_SLEEP_MIN..RAND_SLEEP_MAX
    /\ batch' = {}
    /\ pc' = "sleep"
    /\ wakeAt' = clock + sleep_time
    /\ UNCHANGED <<params, clock, end_time, tick, reqs, stats, report, error>>

\* lines 167, 195
RandomDone ==
    /\ attack = "random" /\ pc = "loop"
    /\ ~(clock < end_time)
    /\ Finalize
    /\ UNCHANGED <<params, clock, end_time, wakeAt, tick, reqs, batch, stats>>

\* -------------------------------------------------------- database_attack
\* line 201
DatabaseCall ==
    /\ attack = "database" /\ pc = "start"
    /\ end_time' = clock + duration
    /\ pc' = "loop"
    /\ UNCHANGED <<params, clock, wakeAt, tick, reqs, batch, stats, report,
                   error>>

\* lines 207-213: 50 GETs and 20 POSTs, in groups of DbGroup
DbPerTick == CeilDiv(DB_HEAVY, DbGroup) + CeilDiv(DB_QUEUE, DbGroup)

\* lines 204-213: the GET coroutines, then the POST coroutines
DbCoroutines(t) ==
    [k \in 1..DbPerTick |->
        NewCoroutine(t, IF k <= CeilDiv(DB_HEAVY, DbGroup)
                        THEN "/database-heavy?queries=100"
                        ELSE "/queue-task")]

\* lines 203-215: the GETs and the POSTs of one tick, gathered together
DatabaseTick ==
    LET n == DbPerTick
        ids == (Len(reqs) + 1)..(Len(reqs) + n)
    IN
    /\ attack = "database" /\ pc = "loop"
    /\ clock < end_time
    /\ Len(reqs) + n <= MaxIssued
    /\ reqs' = Gathered(reqs \o DbCoroutines(tick + 1), ids, clock)
    /\ batch' = ids
    /\ tick' = tick + 1
    /\ pc' = "gather"
    /\ UNCHANGED <<params, clock, end_time, wakeAt, stats, report, error>>

\* lines 215-216: the gather returned; sleep(0.5)
DatabaseSleep ==
    /\ attack = "database" /\ pc = "gather"
    /\ GatherComplete
    /\ batch' = {}
    /\ pc' = "sleep"
    /\ wakeAt' = clock + DB_SLEEP
    /\ UNCHANGED <<params, clock, end_time, tick, reqs, stats, report, error>>

\* lines 203, 218
DatabaseDone ==
    /\ attack = "database" /\ pc = "loop"
    /\ ~(clock < end_time)
    /\ Finalize
    /\ UNCHANGED <<params, clock, end_time, wakeAt, tick, reqs, batch, stats>>

\* --------------------------------------------------------- the event loop
\* asyncio.sleep returned: back to the while test
Wake ==
    /\ pc = "sleep"
    /\ clock >= wakeAt
    /\ pc' = "loop"
    /\ UNCHANGED <<params, clock, end_time, wakeAt, tick, reqs, batch, stats,
                   report, error>>

\* Time passes while the strategy waits for a timer or for responses: up to
\* the timer when nothing else is pending, else by one unit.  A request in
\* flight resolves within MaxLat units of its start.
Advance ==
    /\ \/ pc = "sleep" /\ clock < wakeAt
       \/ pc \in {"gather", "drain"} /\ ~GatherComplete
    /\ \A i \in InFlight : clock - reqs[i].start < MaxLat
    /\ clock' = IF pc = "sleep" /\ InFlight = {} THEN wakeAt ELSE clock + 1
    /\ UNCHANGED <<params, end_time, pc, wakeAt, tick, reqs, batch, stats,
                   report, error>>

\* main, lines 259-272: the strategy returned or raised; __aexit__ has awaited
\* session.close() (requests still in flight could step meanwhile) and
\* asyncio.run cancels what is left: CancelledError is no Exception, the
\* except clause of make_request does not catch it and records nothing
Cancelled(r) ==
    IF r.stage \in {"done", "cancelled"} THEN r
    ELSE [r EXCEPT !.stage = "cancelled", !.ret = "CancelledError"]

Exit ==
    /\ pc \in {"done", "raised"}
    /\ pc' = "exited"
    /\ reqs' = [k \in 1..Len(reqs) |-> Cancelled(reqs[k])]
    /\ UNCHANGED <<params, clock, end_time, wakeAt, tick, batch, stats, report,
                   error>>

\* ------------------------------------------------------------------ main
\* ticks a run with these parameters can begin, at most
PlannedTicks(a, d, r, i) ==
    LET every == CASE a = "ddos" -> DDOS_SLEEP
                   [] a = "burst" -> i
                   [] a = "sustained" -> IF r = 0 THEN 1 ELSE ONE_SECOND \div r
                   [] a = "random" -> RAND_SLEEP_MIN
                   [] OTHER -> DB_SLEEP
    IN  IF d <= 0 THEN 0
        ELSE IF every = 0 THEN MaxIssued
        ELSE CeilDiv(d, every)

\* requests one tick creates, at most
PerTick(a, r, b) ==
    CASE a = "ddos" -> RangeLen(FloorDiv(r, DDOS_DIVISOR))
      [] a = "burst" -> b
      [] a = "sustained" -> IF r = 0 THEN 0 ELSE 1
      [] a = "random" -> r
      [] OTHER -> DbPerTick

\* lines 245-259: the arguments are parsed and passed on unchecked; runs that
\* would create more than MaxIssued requests are not drawn, and interval 0
\* is drawn only with a burst_size above 0
Init ==
    /\ attack \in Attacks
    /\ duration \in Durations
    /\ rps \in RpsValues(attack)
    /\ burst_size \in IF attack = "burst" THEN 0..MaxBurst ELSE {0}
    /\ interval \in IF attack = "burst" THEN 0..MaxInterval ELSE {0}
    /\ interval = 0 /\ attack = "burst" => burst_size > 0
    /\ interval > 0 \/ attack /= "burst" =>
         PlannedTicks(attack, duration, rps, interval)
           * PerTick(attack, rps, burst_size) <= MaxIssued
    /\ clock = 0
    /\ end_time = 0
    /\ pc = "start"
    /\ wakeAt = 0
    /\ tick = 0
    /\ reqs = <<>>
    /\ batch = {}
    /\ stats = InitStats
    /\ report = [kind |-> "none"]
    /\ error = "none"

Next ==
    \/ DdosCall \/ DdosTick \/ DdosDrain \/ DdosDone
    \/ BurstCall \/ BurstTick \/ BurstSleep \/ BurstDone
    \/ SustainedCall \/ SustainedTick \/ SustainedDone
    \/ RandomCall \/ RandomDone
    \/ \E n \in 1..MaxRandRps : RandomTick(n)
    \/ \E s \in RAND_SLEEP_MIN..RAND_SLEEP_MAX : RandomIdleTick(s)
    \/ \E s \in RAND_SLEEP_MIN..RAND_SLEEP_MAX : RandomSleep(s)
    \/ DatabaseCall \/ DatabaseTick \/ DatabaseSleep \/ DatabaseDone
    \/ Wake \/ Advance \/ Exit
    \/ \E i \in 1..Len(reqs) :
         \/ \E s \in Statuses : Respond(i, s)
         \/ ReadBody(i)
         \/ CatchException(i)

Spec == Init /\ [][Next]_vars

\* The event loop runs every ready callback, timers fire and every request
\* resolves within MaxLat: a step that stays possible is eventually taken.
FairSpec == Spec /\ WF_vars(Next)

\* ------------------------------------------- the collector driven directly
\* make_request's recording and print_stats applied to a sequence of
\* outcomes, without a strategy around them: the statistics of samples
\* longer than a modelled run can produce.  The mean, the extremes and the
\* percentile do not depend on the order of arrival, so latencies are drawn
\* in non-increasing order only (print_stats has to sort them).
StatsInit ==
    /\ attack = "none"
    /\ duration = 0 /\ rps = 0 /\ burst_size = 0 /\ interval = 0
    /\ clock = 0 /\ end_time = 0 /\ wakeAt = 0 /\ tick = 0
    /\ pc = "latencies"
    /\ reqs = <<>>
    /\ batch = {}
    /\ stats = InitStats
    /\ report = [kind |-> "none"]
    /\ error = "none"

\* lines 50-61 for a response with a status below 400 and latency v
StatsLatency(v) ==
    /\ pc = "latencies" /\ report.kind = "none"
    /\ Len(stats.response_times) < MaxSample
    /\ v \in 0..MaxLat
    /\ stats.response_times /= <<>> =>
           v <= stats.response_times[Len(stats.response_times)]
    /\ stats' = RecordResponse(stats, 200, v, "/cpu-intensive")
    /\ UNCHANGED <<params, clock, end_time, pc, wakeAt, tick, reqs, batch,
                   report, error>>

\* print_stats on what was recorded
StatsReport ==
    /\ pc = "latencies" /\ report.kind = "none"
    /\ report' = PrintStats(stats)
    /\ UNCHANGED <<params, clock, end_time, pc, wakeAt, tick, reqs, batch,
                   stats, error>>

StatsNext ==
    \/ \E v \in 0..MaxLat : StatsLatency(v)
    \/ StatsReport

StatsSpec == StatsInit /\ [][StatsNext]_vars

\* ------------------------------------------------------------ the claims
\* the strategy executed print_stats and returned (DONE)
Finalized == report.kind /= "none" /\ error = "none"

Done == {i \in 1..Len(reqs) : reqs[i].stage = "done"}
TransportErrors == {i \in Done : reqs[i].ret = "error"}
HttpErrors ==
    {i \in Done : reqs[i].ret = "status" /\ reqs[i].status >= HTTP_ERROR_FLOOR}
Successes ==
    {i \in Done : reqs[i].ret = "status" /\ reqs[i].status < HTTP_ERROR_FLOOR}
ErrorRecords(kind) ==
    {k \in 1..Len(stats.errors) : kind \in DOMAIN stats.errors[k]}

\* C1: at every await point, whatever the outcomes and their interleaving,
\* total_requests = successful_requests + failed_requests.
C1_TotalIsSuccessfulPlusFailed ==
    stats.total_requests = stats.successful_requests + stats.failed_requests

\* C1 witness: a success, an HTTP error and a transport failure have all been
\* counted in one run.
C1_Witness ==
    /\ stats.successful_requests >= 1
    /\ ErrorRecords("status") /= {}
    /\ ErrorRecords("error") /= {}

\* C2: the number of recorded latencies equals the number of recorded
\* outcomes, transport failures included.
C2_LatenciesMatchTotal ==
    Len(stats.response_times) = stats.total_requests

\* C3: no outcome is lost or counted twice: total_requests is the number of
\* completed calls, failed_requests the number of transport errors plus HTTP
\* errors among them, successful_requests the rest, whatever the order of
\* completion; once all N calls have completed total_requests is N.
C3_NoOutcomeLostOrDoubled ==
    /\ stats.total_requests = Cardinality(Done)
    /\ stats.failed_requests =
           Cardinality(TransportErrors) + Cardinality(HttpErrors)
    /\ stats.successful_requests = Cardinality(Successes)
    /\ Cardinality(Done) = Len(reqs) => stats.total_requests = Len(reqs)

\* C3 witness: a concurrent batch has completed, with a transport error, an
\* HTTP error and a success in it.
C3_Witness ==
    /\ attack = "database"
    /\ Cardinality(Done) = Len(reqs)
    /\ TransportErrors /= {} /\ HttpErrors /= {} /\ Successes /= {}

\* C4 as claimed: no strategy is DONE while a request it created is
\* unresolved or unrecorded.
C4_NoStrategyDoneWithUnresolved ==
    Finalized =>
        /\ \A i \in 1..Len(reqs) : reqs[i].stage = "done"
        /\ stats.total_requests = Len(reqs)

\* C4 amended: ddos, burst, random and database are DONE only when every
\* request they created has completed and is recorded.
C4_BarrierStrategiesDoneOnlyWhenResolved ==
    Finalized /\ attack /= "sustained" =>
        /\ \A i \in 1..Len(reqs) : reqs[i].stage = "done"
        /\ stats.total_requests = Len(reqs)

\* C4 witness: a ddos run is DONE after draining several requests.
C4_Witness ==
    /\ attack = "ddos" /\ pc = "done"
    /\ Len(reqs) >= 2

\* C5: a transport failure never leaves make_request and never aborts the
\* run: the call returns a dict with an error and no status, the failure is
\* recorded exactly once, no request is created beyond those of the ticks,
\* and the strategy returns only at its deadline.
C5_TransportFailureContained ==
    /\ \A i \in Done : reqs[i].ret \in {"status", "error"}
    /\ \A i \in TransportErrors : reqs[i].status = 0
    /\ Cardinality(ErrorRecords("error")) = Cardinality(TransportErrors)
    /\ Len(reqs) <= tick * PerTick(attack, rps, burst_size)
    /\ TransportErrors /= {} => error = "none"
    /\ Finalized => clock >= end_time

\* C5 witness: a request of an earlier tick failed in transport, the loop
\* went on to later ticks and the strategy is DONE.
C5_Witness ==
    /\ pc = "done"
    /\ \E i \in TransportErrors : reqs[i].tick < tick

\* C6: for every duration > 0 and every accepted rate the loop begins no
\* tick at or after the deadline and the strategy eventually is DONE.
C6_EveryStrategyTerminates ==
    /\ [][tick' > tick => clock < end_time]_vars
    /\ (duration > 0 /\ (attack = "burst" => interval > 0)) => <>Finalized

\* Outside the zero rate of sustained_attack every run with duration > 0
\* does terminate (holds under FairSpec).
TerminatesUnlessZeroRate ==
    (/\ duration > 0
     /\ attack = "burst" => interval > 0
     /\ ~(attack = "sustained" /\ rps = 0)) => <>Finalized

\* C7: a rate of 0 never raises a division by zero.
C7_ZeroRateNeverRaises ==
    rps = 0 => error /= "ZeroDivisionError"

\* C8: a negative duration, or a zero interval with a nonzero burst size, is
\* rejected: no request is created and the run does not complete with a
\* report.
C8_InvalidParametersRejected ==
    (duration < 0 \/ (attack = "burst" /\ interval = 0 /\ burst_size > 0)) =>
        /\ Len(reqs) = 0
        /\ report.kind = "none"

BurstGatherWait == clock - tick * interval

\* C10 as claimed: a burst run with interval > 0 and duration > 0 creates
\* burst_size requests per burst and floor(duration / interval) bursts,
\* give or take one.
C10_BurstCountWithinOneBurst ==
    attack = "burst" /\ interval > 0 /\ duration > 0 /\ Finalized =>
        /\ Len(reqs) = burst_size * tick
        /\ tick >= (duration \div interval) - 1
        /\ tick <= (duration \div interval) + 1

\* C10 amended: every burst creates burst_size requests; there is at least
\* one burst and at most floor(duration / interval) + 1; when the responses
\* are instant there are at least floor(duration / interval).
C10_BurstCountBounded ==
    attack = "burst" /\ interval > 0 /\ duration > 0 /\ Finalized =>
        /\ Len(reqs) = burst_size * tick
        /\ tick >= 1
        /\ tick <= (duration \div interval) + 1
        /\ BurstGatherWait = 0 => tick >= duration \div interval

\* C10 witness: a finalized burst run of several bursts with instant
\* responses.
C10_Witness ==
    /\ attack = "burst" /\ interval > 0 /\ Finalized
    /\ burst_size >= 1 /\ tick >= 2
    /\ BurstGatherWait = 0

\* C11: a sustained run with rps = R > 0 and duration = D > 0 creates one
\* request per tick, ticks are 1/R apart, and by the deadline it has created
\* R*D requests within 20%.  D is a whole number of seconds in the program
\* (R*D is an integer); the runs drawn here with that property are those with
\* rps * duration a multiple of ONE_SECOND.  The count does not depend on
\* how fast the target answers, so no premise on the responses is needed.
C11_SustainedDispatchesRateTimesDuration ==
    attack = "sustained" /\ rps > 0 /\ duration > 0 =>
        /\ Len(reqs) = tick
        /\ \A i \in InFlight : reqs[i].start * rps = (i - 1) * ONE_SECOND
        /\ Finalized /\ (rps * duration) % ONE_SECOND = 0 =>
               /\ Len(reqs) * ONE_SECOND = rps * duration
               /\ 5 * (Len(reqs) * ONE_SECOND - rps * duration)
                      <= rps * duration
               /\ 5 * (rps * duration - Len(reqs) * ONE_SECOND)
                      <= rps * duration

\* C11 witness: a finalized sustained run of several ticks whose duration is
\* a whole number of intervals.
C11_Witness ==
    /\ attack = "sustained" /\ rps > 0 /\ Finalized
    /\ (rps * duration) % ONE_SECOND = 0
    /\ Len(reqs) >= 2

\* C12 as claimed: for every non-empty latency sample the report has
\* p95 >= mean >= min and p95 <= max.
C12_PercentileAboveMean ==
    report.kind = "statistics" =>
        /\ report.p95_x100 * report.mean_count >= 100 * report.mean_sum
        /\ report.mean_sum >= report.min * report.mean_count
        /\ report.p95_x100 <= 100 * report.max

\* C12 amended: min <= mean <= max and min <= p95 <= max for every non-empty
\* sample; p95 >= mean for samples of at most 20 latencies.
C12_StatisticsWithinExtremes ==
    report.kind = "statistics" =>
        /\ report.mean_sum >= report.min * report.mean_count
        /\ report.mean_sum <= report.max * report.mean_count
        /\ report.p95_x100 >= 100 * report.min
        /\ report.p95_x100 <= 100 * report.max
        /\ report.mean_count <= 20 =>
               report.p95_x100 * report.mean_count >= 100 * report.mean_sum

\* C12 witness: a report over 20 latencies that are not all equal, whose p95
\* lies strictly between the mean and the maximum.
C12_Witness ==
    /\ report.kind = "statistics"
    /\ report.mean_count = 20
    /\ report.min < report.max
    /\ report.p95_x100 < 100 * report.max
    /\ report.p95_x100 * report.mean_count > 100 * report.mean_sum

\* C13: once the strategy is DONE its statistics are read-only: no later
\* step changes stats, and outcomes of sustained's requests that arrive
\* after DONE are dropped.
C13_StatsReadOnlyAfterDone ==
    [][Finalized => stats' = stats]_vars

\* the strategies whose loop gathers the requests of an iteration
PerTickGather == {"burst", "random", "database"}

\* the strategy is between two iterations: at the loop test or in its sleep
BetweenTicks == pc \in {"loop", "sleep"}

\* C14 as stated: in DDoS, Burst, Random and Database every request created
\* in tick N has completed before the loop dispatches tick N+1.
C14_BarrierPerTickAllFour ==
    attack \in PerTickGather \cup {"ddos"} =>
        /\ \A i, j \in 1..Len(reqs) :
               reqs[i].tick < reqs[j].tick => reqs[i].stage = "done"
        /\ BetweenTicks => Unresolved = {}

\* C14 amended: the barrier per tick holds in Burst, Random and Database;
\* DDoS gathers once, after its loop.  Every request created in tick N has
\* completed before a request of a later tick exists, and the loop is
\* between two ticks only with every request completed.
C14_BarrierPerTick ==
    attack \in PerTickGather =>
        /\ \A i, j \in 1..Len(reqs) :
               reqs[i].tick < reqs[j].tick => reqs[i].stage = "done"
        /\ BetweenTicks => Unresolved = {}

\* a second tick is in flight after the first one was gathered
C14_Witness ==
    /\ attack \in PerTickGather
    /\ \E i, j \in 1..Len(reqs) :
           /\ reqs[i].tick < reqs[j].tick
           /\ reqs[i].ret /= "pending"
           /\ reqs[j].stage = "sent"

\* C15: in a DDoS run the requests of a tick start executing at that tick,
\* before the deadline and before later ticks: while the loop sleeps after a
\* tick no created request is still unstarted, and no request starts
\* executing once the deadline has passed.
C15_DdosStartsRequestsAtTheirTick ==
    attack = "ddos" =>
        /\ pc = "sleep" => \A i \in 1..Len(reqs) : reqs[i].stage /= "created"
        /\ \A i \in InFlight : reqs[i].start < end_time

\* C16: Sustained is fire-and-forget: the loop never waits for a dispatched
\* request, so it sleeps until one inter-arrival interval after the latest
\* dispatch and is back at its loop test exactly then, whether or not the
\* earlier requests have resolved.
C16_SustainedNeverWaits ==
    attack = "sustained" /\ rps > 0 =>
        /\ batch = {}
        /\ pc \notin {"gather", "drain"}
        /\ pc = "sleep" => wakeAt = tick * SustainedInterval
        /\ pc = "loop" => clock = tick * SustainedInterval

\* the third request is dispatched while the two before it are in flight
C16_Witness ==
    /\ attack = "sustained"
    /\ pc = "sleep"
    /\ Len(reqs) = 3
    /\ \A i \in 1..Len(reqs) : reqs[i].stage = "sent"
    /\ reqs[1].start < reqs[2].start
    /\ reqs[2].start < reqs[3].start

\* C17: outcome classification.  A step in which request i returns changes
\* the statistics by the kind of its outcome: a response with status below
\* 400 adds one to successful_requests only and appends no error record; a
\* response with status 400 or above adds one to failed_requests only and
\* appends one error record with that status and the request's endpoint; a
\* transport failure adds one to failed_requests only and appends one error
\* record with the error text and the endpoint and no status.  No outcome
\* is counted as both successful and failed.
C17_OutcomeClassification ==
    [][\A i \in 1..Len(reqs) :
         reqs[i].stage \in {"sent", "responded"} /\ reqs'[i].stage = "done" =>
           LET r == reqs'[i]
               endpoint == reqs[i].endpoint
               successful == stats'.successful_requests - stats.successful_requests
               failed == stats'.failed_requests - stats.failed_requests
           IN  /\ r.ret \in {"status", "error"}
               /\ successful + failed = 1
               /\ r.ret = "status" /\ r.status < HTTP_ERROR_FLOOR =>
                      successful = 1 /\ stats'.errors = stats.errors
               /\ r.ret = "status" /\ r.status >= HTTP_ERROR_FLOOR =>
                      /\ failed = 1
                      /\ stats'.errors =
                           Append(stats.errors,
                                  [status |-> r.status, endpoint |-> endpoint])
               /\ r.ret = "error" =>
                      /\ failed = 1
                      /\ stats'.errors =
                           Append(stats.errors,
                                  [error |-> "Exception", endpoint |-> endpoint])
                      /\ "status" \notin DOMAIN stats'.errors[Len(stats'.errors)]
      ]_vars

\* a success was counted, and an HTTP error and a transport failure of
\* requests to different endpoints were recorded
C17_Witness ==
    /\ stats.successful_requests >= 1
    /\ \E k, l \in 1..Len(stats.errors) :
           /\ "status" \in DOMAIN stats.errors[k]
           /\ stats.errors[k].status >= HTTP_ERROR_FLOOR
           /\ stats.errors[k].endpoint \in Endpoints(attack)
           /\ "error" \in DOMAIN stats.errors[l]
           /\ stats.errors[l].endpoint \in Endpoints(attack)
           /\ stats.errors[l].endpoint /= stats.errors[k].endpoint

\* the error records a report shows: lines 240-243 are reached only past the
\* early return of lines 222-224
ShownErrors(r) == IF r.kind = "statistics" THEN r.recent_errors ELSE <<>>

\* C18: in every reachable state len(errors) = failed_requests; the error
\* list is append-only; and the report shows the last min(5, len) error
\* records in arrival order.
C18_ErrorsMatchFailedAndReportShowsLast ==
    /\ [](Len(stats.errors) = stats.failed_requests)
    /\ [][/\ Len(stats.errors) <= Len(stats'.errors)
          /\ SubSeq(stats'.errors, 1, Len(stats.errors)) = stats.errors
          /\ report.kind = "none" /\ report'.kind /= "none" =>
               /\ Len(ShownErrors(report')) = Min(RECENT_ERRORS, Len(stats.errors))
               /\ ShownErrors(report') = RecentErrors(stats.errors)
       ]_vars

\* C19: in every reachable state len(response_times) <= total_requests, and
\* len(response_times) is the number of outcomes that received an HTTP
\* response; so when print_stats passes its emptiness check total_requests
\* is at least 1 and the division is defined, and when it reports
\* "No requests completed" no request has received a response.
C19_LatenciesCountResponses ==
    /\ [](/\ Len(stats.response_times) <= stats.total_requests
          /\ Len(stats.response_times) = Cardinality(Successes \cup HttpErrors))
    /\ [][report.kind = "none" /\ report'.kind /= "none" =>
            /\ report'.kind /= "ZeroDivisionError"
            /\ report'.kind = "statistics" =>
                   /\ stats.response_times /= <<>>
                   /\ stats.total_requests >= 1
            /\ report'.kind = "no_requests_completed" =>
                   /\ stats.response_times = <<>>
                   /\ Successes \cup HttpErrors = {}
       ]_vars

\* statistics were printed for a run with a response and a transport failure
C19_Witness ==
    /\ report.kind = "statistics"
    /\ Len(stats.response_times) >= 1
    /\ Len(stats.response_times) < stats.total_requests
    /\ TransportErrors /= {}

====
